---------------------------- MODULE Spec2Model ----------------------------
(***************************************************************************)
(* Model of the medical-IT news digest (src/main.py, src/filter.py,        *)
(* src/storage.py, src/notifier.py, src/config.py, src/fetcher.py).        *)
(*                                                                         *)
(* Strings are sequences of one-character strings, so that substring       *)
(* tests, lower-casing, rstrip and split are computed character by         *)
(* character as the Python code computes them.  A float score is an exact  *)
(* rational [num, den]; the float comparisons of the code (>= 0.75,        *)
(* max(.., 0.7), min(.., 1.0)) agree with the rational ones for every      *)
(* length the model reaches.                                               *)
(***************************************************************************)
EXTENDS Integers, Sequences, FiniteSets, TLC

VARIABLES
    titleWords1,   \* SpecSim: the words title1 is made of
    titleWords2,   \* SpecSim: the words title2 is made of
    similarity,    \* SpecSim: <<>> or <<score(title1,title2), score(title2,title1)>>
    articles,      \* SpecDedup, SpecSort, SpecFilter: the list the function is given
    output,        \* SpecDedup, SpecSort, SpecFilter: the list the function returned
    applied,       \* SpecDedup, SpecSort, SpecFilter: whether the function has returned
    keywords,      \* SpecFilter: the keyword and domain lists filter_articles is given
    env,           \* Spec: the environment variables config.py reads
    disk,          \* Spec: the ledger file at storage_path
    runs,          \* Spec: how many runs have been started (the clock "now" reads)
    prev,          \* Spec: <<>> or <<the summary of the run that ended last>>
    pc,            \* Spec: where each process is in run()
    args,          \* Spec: the arguments of run(): manual, dry_run, max_items
    fetched,       \* Spec: run's list "fetched", as catalog numbers
    sent_map,      \* Spec: run's dict "sent_map"
    new_articles,  \* Spec: run's list "new_articles", as catalog numbers
    now,           \* Spec: run's "now"
    success,       \* Spec: run's "success": "pending" until post_message returned
    ledger0,       \* Spec: the ledger file as it was when the run started
    saved,         \* Spec: how save_sent_urls ended: "no" (not called), "yes", "failed", "raised"
    exit_code,     \* Spec: the value run() returned, once pc is "done"
    loads,         \* Spec: how often the run has called load_sent_urls
    answering,     \* SpecFetch: the sources that answer with their articles
    tmpdata,       \* SpecStore, SpecConc: <<>> or <<the blocks of the temporary file>>
    destdata,      \* SpecStore, SpecConc: the blocks of the ledger file, once a save replaced it
    fd,            \* SpecStore, SpecConc: the file each process has open for writing
    last           \* SpecConc: the process whose replace came last, 0 before any

simVars == <<titleWords1, titleWords2, similarity>>

listVars == <<articles, output, applied>>

runVars == <<env, disk, runs, prev, pc, args, fetched, sent_map, new_articles,
             now, success, ledger0, saved, exit_code, loads>>

fsVars == <<answering, tmpdata, destdata, fd, last>>

vars == <<titleWords1, titleWords2, similarity, articles, output, applied, keywords,
          env, disk, runs, prev, pc, args, fetched, sent_map, new_articles,
          now, success, ledger0, saved, exit_code, loads,
          answering, tmpdata, destdata, fd, last>>

\* the processes that may run the program
Procs == {1, 2}

-----------------------------------------------------------------------------
(* Python str operations, on sequences of characters *)

\* str.lower() on one character, for the upper-case letters the model uses
LowerMap ==
    ("A" :> "a") @@ ("C" :> "c") @@ ("D" :> "d") @@ ("E" :> "e") @@
    ("H" :> "h") @@ ("I" :> "i") @@ ("P" :> "p") @@ ("R" :> "r") @@
    ("T" :> "t") @@ ("X" :> "x") @@ ("M" :> "m") @@ ("O" :> "o")

LowerChar(c) == IF c \in DOMAIN LowerMap THEN LowerMap[c] ELSE c

\* s.lower()
Lower(s) == [i \in 1..Len(s) |-> LowerChar(s[i])]

\* the characters of the model that the regex class \w does not match
NonWordChars == {" ", "-", "/", "?", ".", ":", "!", "=", "&"}

IsWordChar(c) == c \notin NonWordChars

\* sub in s
Contains(sub, s) ==
    \E i \in 0..(Len(s) - Len(sub)) : SubSeq(s, i + 1, i + Len(sub)) = sub

\* s[:n]
Prefix(s, n) == SubSeq(s, 1, IF n < Len(s) THEN n ELSE Len(s))

\* set(s)
CharSet(s) == {s[i] : i \in 1..Len(s)}

RECURSIVE RStrip(_, _)
\* s.rstrip(ch)
RStrip(s, ch) ==
    IF s # <<>> /\ s[Len(s)] = ch
    THEN RStrip(SubSeq(s, 1, Len(s) - 1), ch)
    ELSE s

\* s.split(ch)[0]
SplitFirst(s, ch) ==
    IF \E i \in 1..Len(s) : s[i] = ch
    THEN LET first == CHOOSE i \in 1..Len(s) :
                          /\ s[i] = ch
                          /\ \A j \in 1..(i - 1) : s[j] # ch
         IN  SubSeq(s, 1, first - 1)
    ELSE s

RECURSIVE Join(_)
\* "".join(words)
Join(words) == IF words = <<>> THEN <<>> ELSE Head(words) \o Join(Tail(words))

-----------------------------------------------------------------------------
(* Exact rationals for the float scores *)

Rat(n, d) == [num |-> n, den |-> d]

RatGeq(a, b) == a.num * b.den >= b.num * a.den

RatEq(a, b) == a.num * b.den = b.num * a.den

RatMax(a, b) == IF RatGeq(a, b) THEN a ELSE b

RatMin(a, b) == IF RatGeq(a, b) THEN b ELSE a

-----------------------------------------------------------------------------
(* main.py: title similarity *)

\* re.sub(r'[^\w]', '', title.lower())
_normalize_title(title) == SelectSeq(Lower(title), IsWordChar)

\* the weighted blend of lines 171-198 (Jaccard, length ratio, 3-gram bonus)
BlendSimilarity(norm1, norm2) ==
    LET len1 == Len(norm1)
        len2 == Len(norm2)
        common_chars == Cardinality({c \in CharSet(norm1) : c \in CharSet(norm2)})
        total_chars == Cardinality(CharSet(norm1) \cup CharSet(norm2))
        shorter == IF len1 <= len2 THEN len1 ELSE len2
        longer == IF len1 <= len2 THEN len2 ELSE len1
        has_common_substring ==
            \E i \in 0..(len1 - 3) : Contains(SubSeq(norm1, i + 1, i + 3), norm2)
        \* jaccard * 0.5 + length_similarity * 0.3 + common_substring_score
        similarity_sum ==
            Rat(10 * common_chars * longer + 6 * shorter * total_chars
                    + (IF has_common_substring THEN 4 * total_chars * longer ELSE 0),
                20 * total_chars * longer)
    IN  IF total_chars = 0 THEN Rat(0, 1) ELSE RatMin(similarity_sum, Rat(1, 1))

\* mutant: the substring branch returns the bare length ratio, without the 0.7 floor
CalcSimilarityNoFloor(title1, title2) ==
    LET norm1 == _normalize_title(title1)
        norm2 == _normalize_title(title2)
        len1 == Len(norm1)
        len2 == Len(norm2)
        shorter == IF len1 <= len2 THEN len1 ELSE len2
        longer == IF len1 <= len2 THEN len2 ELSE len1
    IN  IF norm1 = <<>> \/ norm2 = <<>> THEN Rat(0, 1)
        ELSE IF norm1 = norm2 THEN Rat(1, 1)
        ELSE IF shorter >= 10 /\ (IF len1 <= len2 THEN Contains(norm1, norm2)
                                                  ELSE Contains(norm2, norm1))
        THEN Rat(shorter, longer)
        ELSE IF shorter >= 5 /\ Prefix(norm1, (4 * shorter) \div 5)
                                 = Prefix(norm2, (4 * shorter) \div 5)
        THEN Rat(3, 4)
        ELSE BlendSimilarity(norm1, norm2)

_calculate_title_similarity(title1, title2) ==
    LET norm1 == _normalize_title(title1)
        norm2 == _normalize_title(title2)
        len1 == Len(norm1)
        len2 == Len(norm2)
        shorter == IF len1 <= len2 THEN len1 ELSE len2
        longer == IF len1 <= len2 THEN len2 ELSE len1
        \* min(shorter, int(shorter * 0.8))
        overlap_length == (4 * shorter) \div 5
    IN  IF norm1 = <<>> \/ norm2 = <<>> THEN Rat(0, 1)
        ELSE IF norm1 = norm2 THEN Rat(1, 1)
        ELSE IF shorter >= 10 /\ (IF len1 <= len2 THEN Contains(norm1, norm2)
                                                  ELSE Contains(norm2, norm1))
        THEN RatMax(Rat(shorter, longer), Rat(7, 10))
        ELSE IF shorter >= 5 /\ Prefix(norm1, overlap_length) = Prefix(norm2, overlap_length)
        THEN Rat(3, 4)
        ELSE BlendSimilarity(norm1, norm2)

-----------------------------------------------------------------------------
(* fetcher.py: the article record; main.py: source priority and dedup *)

\* published_at of an article without a parsed timestamp; a parsed timestamp
\* t (seconds, of either sign) is <<t>>
None == <<>>

\* Article(title, link, published, summary, published_at, matched_keywords):
\* summary None is the empty string (every use is "summary or ''"), and
\* the raw date string "published" is read by no function of the pipeline
Article(title, link, summary, published_at) ==
    [title |-> title, link |-> link, summary |-> summary,
     published_at |-> published_at, matched_keywords |-> <<>>]

PRTIMES == <<"p", "r", "t", "i", "m", "e", "s", ".", "j", "p">>

MEDICALTECH_NEWS ==
    <<"m", "e", "d", "i", "c", "a", "l", "t", "e", "c", "h", "-",
      "n", "e", "w", "s", ".", "c", "o", "m">>

HT_WATCH == <<"h", "t", "-", "w", "a", "t", "c", "h", ".", "c", "o", "m">>

GOOGLE_NEWS ==
    <<"n", "e", "w", "s", ".", "g", "o", "o", "g", "l", "e", ".", "c", "o", "m">>

_get_source_priority(link) ==
    IF Contains(PRTIMES, link) THEN 1
    ELSE IF Contains(MEDICALTECH_NEWS, link) THEN 2
    ELSE IF Contains(HT_WATCH, link) THEN 3
    ELSE IF Contains(GOOGLE_NEWS, link) THEN 4
    ELSE 5

\* article.link.rstrip("/").split("?")[0]
NormalizeUrl(link) == SplitFirst(RStrip(link, "/"), "?")

SIMILARITY_THRESHOLD == Rat(3, 4)

RECURSIVE UrlDeduplicate(_, _, _)
\* lines 218-227: first article per normalized URL, articles without link dropped
UrlDeduplicate(arts, seen_urls, url_deduplicated) ==
    IF arts = <<>> THEN url_deduplicated
    ELSE LET article == Head(arts)
             normalized_url == NormalizeUrl(article.link)
         IN  IF article.link = <<>>
             THEN UrlDeduplicate(Tail(arts), seen_urls, url_deduplicated)
             ELSE IF normalized_url \notin seen_urls
             THEN UrlDeduplicate(Tail(arts), seen_urls \cup {normalized_url},
                                 Append(url_deduplicated, article))
             ELSE UrlDeduplicate(Tail(arts), seen_urls, url_deduplicated)

\* list.remove(x): the list without its first element equal to x
ListRemove(list, x) ==
    LET first == CHOOSE i \in 1..Len(list) :
                     list[i] = x /\ \A j \in 1..(i - 1) : list[j] # x
    IN  SubSeq(list, 1, first - 1) \o SubSeq(list, first + 1, Len(list))

\* mutant: on a duplicate the incoming article is always dropped
AcceptArticleKeepFirst(deduplicated, article) ==
    IF article.title = <<>> THEN deduplicated
    ELSE IF \E i \in 1..Len(deduplicated) :
                RatGeq(_calculate_title_similarity(article.title, deduplicated[i].title),
                       SIMILARITY_THRESHOLD)
    THEN deduplicated
    ELSE Append(deduplicated, article)

\* mutant: the incoming article takes the place of the one it replaces
AcceptArticleInPlace(deduplicated, article) ==
    IF article.title = <<>> THEN deduplicated
    ELSE LET duplicates ==
                 {i \in 1..Len(deduplicated) :
                     RatGeq(_calculate_title_similarity(article.title,
                                                        deduplicated[i].title),
                            SIMILARITY_THRESHOLD)}
         IN  IF duplicates = {} THEN Append(deduplicated, article)
             ELSE LET first == CHOOSE i \in duplicates : \A j \in duplicates : i <= j
                  IN  IF _get_source_priority(article.link)
                             < _get_source_priority(deduplicated[first].link)
                      THEN [deduplicated EXCEPT ![first] = article]
                      ELSE deduplicated

\* lines 235-269: one iteration of the title loop
AcceptArticle(deduplicated, article) ==
    IF article.title = <<>> THEN deduplicated
    ELSE LET duplicates ==
                 {i \in 1..Len(deduplicated) :
                     RatGeq(_calculate_title_similarity(article.title,
                                                        deduplicated[i].title),
                            SIMILARITY_THRESHOLD)}
         IN  IF duplicates = {} THEN Append(deduplicated, article)
             ELSE LET existing_article ==
                          deduplicated[CHOOSE i \in duplicates :
                                           \A j \in duplicates : i <= j]
                      existing_priority == _get_source_priority(existing_article.link)
                      new_priority == _get_source_priority(article.link)
                  IN  IF new_priority < existing_priority
                      THEN Append(ListRemove(deduplicated, existing_article), article)
                      ELSE deduplicated

RECURSIVE TitleDeduplicate(_, _)
TitleDeduplicate(url_deduplicated, deduplicated) ==
    IF url_deduplicated = <<>> THEN deduplicated
    ELSE TitleDeduplicate(Tail(url_deduplicated),
                          AcceptArticle(deduplicated, Head(url_deduplicated)))

deduplicate_articles(arts) ==
    TitleDeduplicate(UrlDeduplicate(arts, {}, <<>>), <<>>)

-----------------------------------------------------------------------------
(* main.py: sort_articles *)

\* the sort key of line 280: the timestamp, or float("-inf") without one
SortKey(a) ==
    IF a.published_at # None
    THEN [inf |-> FALSE, ts |-> a.published_at[1]]
    ELSE [inf |-> TRUE, ts |-> 0]

\* k1 < k2 on sort keys
KeyLess(k1, k2) ==
    \/ k1.inf /\ ~k2.inf
    \/ ~k1.inf /\ ~k2.inf /\ k1.ts < k2.ts

RECURSIVE InsertDescending(_, _)
\* x put into a descending list behind every element whose key is not smaller
InsertDescending(sorted, x) ==
    IF sorted = <<>> THEN <<x>>
    ELSE IF KeyLess(SortKey(Head(sorted)), SortKey(x))
    THEN <<x>> \o sorted
    ELSE <<Head(sorted)>> \o InsertDescending(Tail(sorted), x)

RECURSIVE InsertBeforeEqual(_, _)
\* x put into a descending list in front of the elements with its key
InsertBeforeEqual(sorted, x) ==
    IF sorted = <<>> THEN <<x>>
    ELSE IF ~KeyLess(SortKey(x), SortKey(Head(sorted)))
    THEN <<x>> \o sorted
    ELSE <<Head(sorted)>> \o InsertBeforeEqual(Tail(sorted), x)

RECURSIVE SortReversed(_, _)
SortReversed(arts, sorted) ==
    IF arts = <<>> THEN sorted
    ELSE SortReversed(Tail(arts), InsertBeforeEqual(sorted, Head(arts)))

RECURSIVE SortedDescending(_, _)
\* sorted(arts, key=..., reverse=True): the stable descending sort
SortedDescending(arts, sorted) ==
    IF arts = <<>> THEN sorted
    ELSE SortedDescending(Tail(arts), InsertDescending(sorted, Head(arts)))

\* mutant: sorted ascending and reversed, so that ties come out reversed
SortReversedArticles(arts) == SortReversed(arts, <<>>)

sort_articles(arts) == SortedDescending(arts, <<>>)

-----------------------------------------------------------------------------
(* filter.py: filter_articles *)

\* [kw.lower() for kw in kws]
LowerAll(kws) == [i \in 1..Len(kws) |-> Lower(kws[i])]

\* any(kw in text for kw in kws)
AnyIn(kws, text) == \E i \in 1..Len(kws) : Contains(kws[i], text)

\* f"{article.title} {article.summary or ''}".lower()
ArticleText(article) == Lower(article.title \o <<" ">> \o article.summary)

\* lines 47-54: the configured keywords, in their own case, that matched
MatchedKeywords(text, medical_keywords, it_keywords) ==
    LET InText(kw) == Contains(Lower(kw), text)
    IN  SelectSeq(medical_keywords, InText) \o SelectSeq(it_keywords, InText)

\* mutant: the exclude keywords are never looked at
KeepsArticleIgnoringExclude(article, medical_keywords, it_keywords, exclude_keywords, exclude_domains) ==
    LET text == ArticleText(article)
    IN  /\ ~(exclude_domains # <<>> /\ article.link # <<>>
                /\ AnyIn(LowerAll(exclude_domains), Lower(article.link)))
        /\ AnyIn(LowerAll(medical_keywords), text)
        /\ AnyIn(LowerAll(it_keywords), text)

\* lines 27-45: whether the loop body reaches the append
KeepsArticle(article, medical_keywords, it_keywords, exclude_keywords, exclude_domains) ==
    LET med_kw == LowerAll(medical_keywords)
        it_kw == LowerAll(it_keywords)
        ng_kw == LowerAll(exclude_keywords)
        ng_domains == LowerAll(exclude_domains)
        text == ArticleText(article)
    IN  /\ ~(ng_domains # <<>> /\ article.link # <<>>
                /\ AnyIn(ng_domains, Lower(article.link)))
        /\ ~(ng_kw # <<>> /\ AnyIn(ng_kw, text))
        /\ AnyIn(med_kw, text)
        /\ AnyIn(it_kw, text)

RECURSIVE filter_articles(_, _, _, _, _)
filter_articles(arts, medical_keywords, it_keywords, exclude_keywords, exclude_domains) ==
    IF arts = <<>> THEN <<>>
    ELSE LET article == Head(arts)
             rest == filter_articles(Tail(arts), medical_keywords, it_keywords,
                                     exclude_keywords, exclude_domains)
         IN  IF KeepsArticle(article, medical_keywords, it_keywords,
                             exclude_keywords, exclude_domains)
             THEN << [article EXCEPT !.matched_keywords =
                          MatchedKeywords(ArticleText(article),
                                          medical_keywords, it_keywords)] >> \o rest
             ELSE rest

-----------------------------------------------------------------------------
(* config.py *)

KW_PHR == <<"P", "H", "R">>

KW_MED == <<"M", "e", "d">>

KW_AI == <<"A", "I">>

KW_DX == <<"D", "X">>

KW_EC == <<"E", "C">>

KW_IT == <<"I", "T">>

\* the keyword lists of lines 59-197, cut down to their ASCII entries PHR;
\* AI, IT, DX; EC
MEDICAL_KEYWORDS == <<KW_PHR>>

IT_KEYWORDS == <<KW_AI, KW_IT, KW_DX>>

EXCLUDE_KEYWORDS == <<KW_EC>>

MAX_ARTICLES_PER_POST == 20

DEFAULT_RSS_FEEDS == <<"https://prtimes.jp/index.rdf">>

MEDICALTECH == <<"m", "e", "d", "i", "c", "a", "l", "t", "e", "c", "h">>

HTWATCH == <<"h", "t", "w", "a", "t", "c", "h">>

GOOGLENEWS == <<"g", "o", "o", "g", "l", "e", "n", "e", "w", "s">>

GOOGLE_DASH_NEWS == <<"g", "o", "o", "g", "l", "e", "-", "n", "e", "w", "s">>

DEFAULT_EXTRA_SOURCES == <<MEDICALTECH, HTWATCH, GOOGLENEWS>>

\* RSS_FEEDS = _rss_env or DEFAULT_RSS_FEEDS
RssFeeds(e) == IF e.rss_env # <<>> THEN e.rss_env ELSE DEFAULT_RSS_FEEDS

\* EXTRA_SOURCES = _env_extra_sources if _env_extra_sources else DEFAULT_EXTRA_SOURCES
ExtraSources(e) == IF e.extra_env # <<>> THEN e.extra_env ELSE DEFAULT_EXTRA_SOURCES

-----------------------------------------------------------------------------
(* The sources and what they hold.  An article of a run is its number in *)
(* the catalog; the pipeline works on the catalog's records.             *)

Catalog ==
    << Article(<<"a", "a", "b">>, <<"p", "r", "t", "i", "m", "e", "s", ".", "j", "p", "/", "1">>,
               <<"P", "H", "R", " ", "A", "I">>, <<5>>),
       Article(<<"c", "d">>, <<"p", "r", "t", "i", "m", "e", "s", ".", "j", "p", "/", "2", "/">>,
               <<"P", "H", "R", " ", "D", "X">>, <<4>>),
       Article(<<"e", "f">>, <<"p", "r", "t", "i", "m", "e", "s", ".", "j", "p", "/", "3", "?", "u", "=", "1">>,
               <<"P", "H", "R", " ", "I", "T">>, <<3>>),
       Article(<<"g", "h">>, <<"m", "e", "d", "i", "c", "a", "l", "t", "e", "c", "h", "-", "n", "e", "w", "s", ".", "c", "o", "m", "/", "4">>,
               <<"P", "H", "R", " ", "A", "I">>, None),
       Article(<<"i", "j">>, <<"m", "e", "d", "i", "c", "a", "l", "t", "e", "c", "h", "-", "n", "e", "w", "s", ".", "c", "o", "m", "/", "5">>,
               <<"P", "H", "R", " ", "A", "I", " ", "E", "C">>, <<8>>),
       Article(<<"k", "l">>, <<"h", "t", "-", "w", "a", "t", "c", "h", ".", "c", "o", "m", "/", "6">>,
               <<"P", "H", "R", " ", "A", "I">>, <<6>>),
       Article(<<"m", "n">>, <<"h", "t", "-", "w", "a", "t", "c", "h", ".", "c", "o", "m", "/", "7">>,
               <<"P", "H", "R", " ", "D", "X">>, None),
       Article(<<"a", "b", "a">>, <<"n", "e", "w", "s", ".", "g", "o", "o", "g", "l", "e", ".", "c", "o", "m", "/", "8">>,
               <<"P", "H", "R", " ", "A", "I">>, <<2>>),
       Article(<<"o", "p">>, <<"n", "e", "w", "s", ".", "g", "o", "o", "g", "l", "e", ".", "c", "o", "m", "/", "9">>,
               <<"P", "H", "R", " ", "A", "I">>, <<7>>) >>

\* what each source returns when it answers: the feed, and the three pages
SourceArticles ==
    ("https://prtimes.jp/index.rdf" :> <<1, 2, 3>>) @@
    ("medicaltech" :> <<4, 5>>) @@
    ("htwatch" :> <<6, 7>>) @@
    ("googlenews" :> <<8, 9>>)

Sources == DOMAIN SourceArticles

\* lines 315-328: the fetcher an entry of EXTRA_SOURCES selects
ExtraFetcher(src) ==
    IF Lower(src) = MEDICALTECH THEN "medicaltech"
    ELSE IF Lower(src) = HTWATCH THEN "htwatch"
    ELSE IF Lower(src) = GOOGLENEWS \/ Lower(src) = GOOGLE_DASH_NEWS THEN "googlenews"
    ELSE "unknown"

RECURSIVE fetch_all_feeds(_, _)
\* fetcher.py: the feeds in list order; a feed outside "up" raises or is
\* empty and adds nothing
fetch_all_feeds(feed_urls, up) ==
    IF feed_urls = <<>> THEN <<>>
    ELSE (IF Head(feed_urls) \in up THEN SourceArticles[Head(feed_urls)] ELSE <<>>)
             \o fetch_all_feeds(Tail(feed_urls), up)

RECURSIVE FetchExtraSources(_, _)
\* lines 312-330: the scraping sources in list order; an unknown name is
\* skipped, a source outside "up" raises or is empty and adds nothing
FetchExtraSources(extra_sources, up) ==
    IF extra_sources = <<>> THEN <<>>
    ELSE (IF ExtraFetcher(Head(extra_sources)) \in up
          THEN SourceArticles[ExtraFetcher(Head(extra_sources))] ELSE <<>>)
             \o FetchExtraSources(Tail(extra_sources), up)

\* mutant: the scraped articles are put before the articles of the feeds
FetchAllExtrasFirst(e, up) ==
    FetchExtraSources(ExtraSources(e), up) \o fetch_all_feeds(RssFeeds(e), up)

\* lines 293-335: "fetched" when the sources of "up" answer
FetchAll(e, up) ==
    fetch_all_feeds(RssFeeds(e), up) \o FetchExtraSources(ExtraSources(e), up)

\* the sources the configuration reaches
ConfiguredSources(e) ==
    {RssFeeds(e)[i] : i \in 1..Len(RssFeeds(e))}
        \cup ({ExtraFetcher(ExtraSources(e)[i]) : i \in 1..Len(ExtraSources(e))}
                  \ {"unknown"})

-----------------------------------------------------------------------------
(* storage.py and the ledger *)

\* The values of the ledger: a natural number t is the string isoformat()
\* gives at time t; below zero are a JSON null and the string "None"
JsonNull == 0 - 1

NoneString == 0 - 2

\* str(ts) of line 29: a string stays, null becomes the string None
Str(ts) == IF ts = JsonNull THEN NoneString ELSE ts

\* lines 16-17: json.load raises UnicodeDecodeError when the bytes are not
\* UTF-8 text; lines 18 and 21 catch JSONDecodeError and OSError only
LoadRaises(file) == file.kind = "undecodable"

\* load_sent_urls when it returns: the dict of a JSON object, with str()
\* applied to its values; no file, a file that cannot be opened, text that
\* is not JSON and JSON that is no object give the empty dict
load_sent_urls(file) ==
    IF file.kind = "object" THEN [url \in DOMAIN file.map |-> Str(file.map[url])]
    ELSE <<>>

\* the file json.dump and replace leave
LedgerFile(map) == [kind |-> "object", map |-> map]

\* mutant: the raw link is not looked up
AlreadySentNormalizedOnly(link, map) == NormalizeUrl(link) \in DOMAIN map

\* line 370: article.link in sent_map or normalized_url in sent_map
AlreadySent(link, map) ==
    link \in DOMAIN map \/ NormalizeUrl(link) \in DOMAIN map

\* mutant: the entries the ledger held are forgotten
RecordSentOntoEmpty(map, ids, timestamp) ==
    [k \in {NormalizeUrl(Catalog[ids[i]].link) : i \in DOMAIN ids} |-> timestamp]

\* mutant: only the first delivered article is recorded
RecordFirstOnly(map, ids, timestamp) ==
    LET keys == {NormalizeUrl(Catalog[ids[i]].link) : i \in {1} \cap DOMAIN ids}
    IN  [k \in DOMAIN map \cup keys |-> IF k \in keys THEN timestamp ELSE map[k]]

\* lines 401-404: sent_map[normalized_url] = timestamp for every new article
RecordSent(map, ids, timestamp) ==
    LET keys == {NormalizeUrl(Catalog[ids[i]].link) : i \in DOMAIN ids}
    IN  [k \in DOMAIN map \cup keys |-> IF k \in keys THEN timestamp ELSE map[k]]

-----------------------------------------------------------------------------
(* main.py: run *)

MANUAL_MAX_ITEMS == 5

\* mutant: the manual cap is forgotten
MaxItemsIgnoringManual(manual, max_items) ==
    IF max_items # 0 THEN max_items ELSE MAX_ARTICLES_PER_POST

\* lines 288-291; max_items 0 stands for None (both are false for "or")
MaxItems(manual, max_items) ==
    IF manual THEN MANUAL_MAX_ITEMS
    ELSE IF max_items # 0 THEN max_items ELSE MAX_ARTICLES_PER_POST

\* lines 356-357 and 379-380: list[:max_items] when the list is longer
Cap(list, max_items) ==
    IF Len(list) > max_items THEN SubSeq(list, 1, max_items) ELSE list

\* the catalog number of a record, whatever keywords the filter attached
IdOf(record) ==
    CHOOSE i \in DOMAIN Catalog : Catalog[i] = [record EXCEPT !.matched_keywords = <<>>]

\* lines 340-347: filter, deduplicate, sort
Ranked(ids) ==
    LET records == [i \in DOMAIN ids |-> Catalog[ids[i]]]
        filtered == sort_articles(deduplicate_articles(
                        filter_articles(records, MEDICAL_KEYWORDS, IT_KEYWORDS,
                                        EXCLUDE_KEYWORDS, <<>>)))
    IN  [i \in DOMAIN filtered |-> IdOf(filtered[i])]

\* line 353: the articles whose link does not hold "news.google.com"
WithoutGoogle(ids) ==
    LET NotGoogle(id) == Catalog[id].link # <<>> /\ ~Contains(GOOGLE_NEWS, Catalog[id].link)
    IN  SelectSeq(ids, NotGoogle)

\* lines 363-374: the articles with a link that the ledger does not hold
NotYetSent(ids, map) ==
    LET IsNew(id) == Catalog[id].link # <<>> /\ ~AlreadySent(Catalog[id].link, map)
    IN  SelectSeq(ids, IsNew)

\* mutant: a manual run does not record what it sent
PersistsScheduledOnly(manual, ids) == ~manual /\ ids # <<>>

\* mutant: the ledger is written even when the digest was empty
PersistsAlways(manual, ids) == TRUE

\* line 398 (and the comment of line 397): every mode persists what it sent
Persists(manual, ids) == ids # <<>>

\* mutant: a failed post is not noticed
AfterPostIgnoringFailure(posted, manual, ids) ==
    IF Persists(manual, ids) THEN "reload" ELSE "done"

\* lines 393-398: where run goes after post_message returned
AfterPost(posted, manual, ids) ==
    IF ~posted THEN "done"
    ELSE IF Persists(manual, ids) THEN "reload"
    ELSE "done"

-----------------------------------------------------------------------------
(* SpecSim: _calculate_title_similarity applied to bounded titles *)

\* most words a title of the similarity check is made of
MaxTitleWords == 3

\* the words titles are made of: two five-letter blocks with disjoint
\* letters, one letter in both cases, and a character \w does not match
TitleWords ==
    { <<"a", "b", "c", "d", "e">>, <<"t", "h", "i", "r", "p">>,
      <<"X">>, <<"x">>, <<"-">> }

title1 == Join(titleWords1)

title2 == Join(titleWords2)

\* the variables of the list functions, while no list function runs
ListIdle ==
    /\ articles = <<>>
    /\ output = <<>>
    /\ applied = FALSE

\* no keyword lists: the state of the variable outside SpecFilter
NoKeywords ==
    [medical_keywords |-> <<>>, it_keywords |-> <<>>,
     exclude_keywords |-> <<>>, exclude_domains |-> <<>>]

\* no ledger file at storage_path
MissingFile == [kind |-> "missing", map |-> <<>>]

\* the variables of a run, while the program is not run
\* no process has a file open
NoFd == [p \in Procs |-> [file |-> "none", pos |-> 0]]

FsIdle ==
    /\ answering = {}
    /\ tmpdata = <<>>
    /\ destdata = <<>>
    /\ fd = NoFd
    /\ last = 0

RunIdle ==
    /\ env = [webhook_url |-> FALSE, rss_env |-> <<>>, extra_env |-> <<>>]
    /\ disk = MissingFile
    /\ runs = 0
    /\ prev = <<>>
    /\ pc = [p \in Procs |-> "idle"]
    /\ args = [p \in Procs |-> [manual |-> FALSE, dry_run |-> FALSE, max_items |-> 0]]
    /\ fetched = [p \in Procs |-> <<>>]
    /\ sent_map = [p \in Procs |-> <<>>]
    /\ new_articles = [p \in Procs |-> <<>>]
    /\ now = [p \in Procs |-> 0]
    /\ success = [p \in Procs |-> "pending"]
    /\ ledger0 = [p \in Procs |-> MissingFile]
    /\ saved = [p \in Procs |-> "no"]
    /\ exit_code = [p \in Procs |-> 0]
    /\ loads = [p \in Procs |-> 0]
    /\ FsIdle

SimIdle ==
    /\ titleWords1 = <<>>
    /\ titleWords2 = <<>>
    /\ similarity = <<>>

SimInit ==
    /\ SimIdle
    /\ ListIdle
    /\ keywords = NoKeywords
    /\ RunIdle

ExtendTitle1 ==
    /\ similarity = <<>>
    /\ Len(titleWords1) < MaxTitleWords
    /\ \E w \in TitleWords : titleWords1' = Append(titleWords1, w)
    /\ UNCHANGED <<titleWords2, similarity, listVars, keywords, runVars, fsVars>>

ExtendTitle2 ==
    /\ similarity = <<>>
    /\ Len(titleWords2) < MaxTitleWords - 1
    /\ \E w \in TitleWords : titleWords2' = Append(titleWords2, w)
    /\ UNCHANGED <<titleWords1, similarity, listVars, keywords, runVars, fsVars>>

CompareTitles ==
    /\ similarity = <<>>
    /\ similarity' = << _calculate_title_similarity(title1, title2),
                        _calculate_title_similarity(title2, title1) >>
    /\ UNCHANGED <<titleWords1, titleWords2, listVars, keywords, runVars, fsVars>>

SimNext == ExtendTitle1 \/ ExtendTitle2 \/ CompareTitles

SpecSim == SimInit /\ [][SimNext]_vars

normalized1 == _normalize_title(title1)

normalized2 == _normalize_title(title2)

ShorterLen == IF Len(normalized1) <= Len(normalized2) THEN Len(normalized1) ELSE Len(normalized2)

LongerLen == IF Len(normalized1) <= Len(normalized2) THEN Len(normalized2) ELSE Len(normalized1)

\* the shorter normalized title has 10 or more characters and occurs in the
\* strictly longer one
ContainedInLonger ==
    /\ ShorterLen >= 10
    /\ Len(normalized1) # Len(normalized2)
    /\ IF Len(normalized1) < Len(normalized2) THEN Contains(normalized1, normalized2) ELSE Contains(normalized2, normalized1)

BothScoresAre(r) == RatEq(similarity[1], r) /\ RatEq(similarity[2], r)

\* C10 as stated, for titles whose normalized forms are not empty: identical
\* normalized titles score 1.0, titles with disjoint character sets score
\* 0.0, and a normalized title of 10 or more characters contained in a longer
\* one scores at least 0.7.
C10_AsStated ==
    (similarity # <<>> /\ normalized1 # <<>> /\ normalized2 # <<>>) =>
        /\ normalized1 = normalized2 => BothScoresAre(Rat(1, 1))
        /\ CharSet(normalized1) \cap CharSet(normalized2) = {} => BothScoresAre(Rat(0, 1))
        /\ ContainedInLonger =>
               RatGeq(similarity[1], Rat(7, 10)) /\ RatGeq(similarity[2], Rat(7, 10))

\* C10 amended: identical non-empty normalized titles score 1.0 (two empty
\* ones score 0.0); titles with disjoint character sets score 0.0 only when
\* one normalized title is empty, and 0.3 * shorter/longer otherwise; a
\* normalized title of 10 or more characters contained in a longer one
\* scores at least 0.7.
C10_SimilarityBoundary ==
    similarity # <<>> =>
        /\ (normalized1 = normalized2 /\ normalized1 # <<>>) => BothScoresAre(Rat(1, 1))
        /\ (normalized1 = <<>> \/ normalized2 = <<>>) => BothScoresAre(Rat(0, 1))
        /\ (CharSet(normalized1) \cap CharSet(normalized2) = {} /\ normalized1 # <<>> /\ normalized2 # <<>>) =>
               BothScoresAre(Rat(3 * ShorterLen, 10 * LongerLen))
        /\ ContainedInLonger =>
               RatGeq(similarity[1], Rat(7, 10)) /\ RatGeq(similarity[2], Rat(7, 10))

\* a 10-character title inside a 15-character one has been scored: the length
\* ratio is below 0.7 and the floor decides the score
C10_Witness ==
    /\ similarity # <<>>
    /\ ContainedInLonger
    /\ 10 * ShorterLen < 7 * LongerLen
    /\ BothScoresAre(Rat(7, 10))

-----------------------------------------------------------------------------
(* SpecDedup: deduplicate_articles applied to bounded lists *)

\* longest list deduplicate_articles is given
MaxDedupLen == 3

\* a PR TIMES article
ArtP1 ==
    Article(<<"a", "a", "b">>,
            <<"p", "r", "t", "i", "m", "e", "s", ".", "j", "p", "/", "1">>, <<>>, None)

\* Google News, title similar (0.8) to ArtP1's
ArtG2 ==
    Article(<<"a", "b", "a">>,
            <<"n", "e", "w", "s", ".", "g", "o", "o", "g", "l", "e", ".", "c", "o", "m", "/", "2">>, <<>>, None)

\* ht-watch, title similar to ArtP1's (0.925) but not to ArtG2's (0.725)
ArtH3 ==
    Article(<<"a", "a", "a", "b">>,
            <<"h", "t", "-", "w", "a", "t", "c", "h", ".", "c", "o", "m", "/", "3">>, <<>>, None)

\* medicaltech-news, same normalized title as ArtP1
ArtM4 ==
    Article(<<"A", "a", "b">>,
            <<"m", "e", "d", "i", "c", "a", "l", "t", "e", "c", "h", "-", "n", "e", "w", "s", ".", "c", "o", "m", "/", "4">>, <<>>, None)

\* PR TIMES, same title as ArtP1 under another URL
ArtP5 ==
    Article(<<"a", "a", "b">>,
            <<"p", "r", "t", "i", "m", "e", "s", ".", "j", "p", "/", "5">>, <<>>, None)

\* an unrelated article of an unknown source
ArtX6 ==
    Article(<<"x", "y">>,
            <<"x", ".", "i", "o", "/", "6">>, <<>>, None)

\* ArtP1's URL with a trailing slash, unrelated title
ArtP1Slash ==
    Article(<<"z", "z">>,
            <<"p", "r", "t", "i", "m", "e", "s", ".", "j", "p", "/", "1", "/">>, <<>>, None)

\* ArtP1's URL with a trailing slash and a query string, unrelated title
ArtP1SlashQuery ==
    Article(<<"w", "w">>,
            <<"p", "r", "t", "i", "m", "e", "s", ".", "j", "p", "/", "1", "/", "?", "u">>, <<>>, None)

\* ArtP5's URL with a query string, unrelated title
ArtP5Query ==
    Article(<<"v", "v">>,
            <<"p", "r", "t", "i", "m", "e", "s", ".", "j", "p", "/", "5", "?", "u">>, <<>>, None)

\* no link
ArtNoLink ==
    Article(<<"q">>,
            <<>>, <<>>, None)

\* no title
ArtNoTitle ==
    Article(<<>>,
            <<"x", ".", "i", "o", "/", "7">>, <<>>, None)

DedupPool ==
    {ArtP1, ArtG2, ArtH3, ArtM4, ArtP5, ArtX6, ArtP1Slash, ArtP1SlashQuery, ArtP5Query,
     ArtNoLink, ArtNoTitle}

DedupInit ==
    /\ SimIdle
    /\ ListIdle
    /\ keywords = NoKeywords
    /\ RunIdle

DedupAddArticle ==
    /\ ~applied
    /\ Len(articles) < MaxDedupLen
    /\ \E a \in DedupPool : articles' = Append(articles, a)
    /\ UNCHANGED <<output, applied, simVars, keywords, runVars, fsVars>>

DedupApply ==
    /\ ~applied
    /\ output' = deduplicate_articles(articles)
    /\ applied' = TRUE
    /\ UNCHANGED <<articles, simVars, keywords, runVars, fsVars>>

DedupNext == DedupAddArticle \/ DedupApply

SpecDedup == DedupInit /\ [][DedupNext]_vars

\* the elements of a list
Range(list) == {list[i] : i \in 1..Len(list)}

Similar(a, b) ==
    RatGeq(_calculate_title_similarity(a.title, b.title), SIMILARITY_THRESHOLD)

\* title similarity >= 0.75 and a strictly higher priority of a
Outranks(a, b) ==
    /\ Similar(a, b)
    /\ _get_source_priority(a.link) < _get_source_priority(b.link)

\* C4 as stated: whenever the input holds two articles A and B with title
\* similarity >= 0.75 and A of strictly higher priority, the output holds A
\* and does not hold B, whatever else the input holds.
C4_AsStated ==
    applied =>
        \A a, b \in Range(articles) :
            Outranks(a, b) => (a \in Range(output) /\ b \notin Range(output))

\* no article of the input other than a and b is similar to a or to b, or
\* has the normalized link of a
Undisturbed(a, b) ==
    \A c \in Range(articles) \ {a, b} :
        /\ ~Similar(c, a) /\ ~Similar(a, c)
        /\ ~Similar(c, b) /\ ~Similar(b, c)
        /\ NormalizeUrl(c.link) # NormalizeUrl(a.link)

\* C4 amended: when the input holds A and B with title similarity >= 0.75,
\* A of strictly higher priority and a normalized link other than B's, and
\* no other article of the input is similar to A or to B or has A's
\* normalized link, the output holds A and does not hold B, whatever the
\* positions of A, B and the other articles.
C4_DedupDeterminism ==
    applied =>
        \A a, b \in Range(articles) :
            (/\ Outranks(a, b)
             /\ NormalizeUrl(a.link) # NormalizeUrl(b.link)
             /\ Undisturbed(a, b))
                => (a \in Range(output) /\ b \notin Range(output))

\* the lower-priority duplicate came first, with an unrelated article between
\* the two, and the higher-priority article replaced it
C4_Witness ==
    /\ applied
    /\ articles = <<ArtG2, ArtX6, ArtP1>>
    /\ Outranks(ArtP1, ArtG2)
    /\ Undisturbed(ArtP1, ArtG2)
    /\ output = <<ArtX6, ArtP1>>

-----------------------------------------------------------------------------
(* SpecSort: sort_articles applied to bounded lists *)

\* longest list sort_articles is given
MaxSortLen == 4

\* two articles of the same time, two older ones (one before 1970) and two
\* without a parsed timestamp
SortPool ==
    { Article(<<"a">>, <<"x", ".", "i", "o", "/", "1">>, <<>>, <<2>>),
      Article(<<"b">>, <<"x", ".", "i", "o", "/", "2">>, <<>>, <<2>>),
      Article(<<"c">>, <<"x", ".", "i", "o", "/", "3">>, <<>>, <<0>>),
      Article(<<"d">>, <<"x", ".", "i", "o", "/", "4">>, <<>>, <<-1>>),
      Article(<<"e">>, <<"x", ".", "i", "o", "/", "5">>, <<>>, None),
      Article(<<"f">>, <<"x", ".", "i", "o", "/", "6">>, <<>>, None) }

SortInit ==
    /\ SimIdle
    /\ ListIdle
    /\ keywords = NoKeywords
    /\ RunIdle

SortAddArticle ==
    /\ ~applied
    /\ Len(articles) < MaxSortLen
    /\ \E a \in SortPool : articles' = Append(articles, a)
    /\ UNCHANGED <<output, applied, simVars, keywords, runVars, fsVars>>

SortApply ==
    /\ ~applied
    /\ output' = sort_articles(articles)
    /\ applied' = TRUE
    /\ UNCHANGED <<articles, simVars, keywords, runVars, fsVars>>

SortNext == SortAddArticle \/ SortApply

SpecSort == SortInit /\ [][SortNext]_vars

\* how often x occurs in a list
Count(list, x) == Cardinality({i \in 1..Len(list) : list[i] = x})

\* the articles of a list published at p, in the order of the list
PublishedAt(list, p) ==
    LET AtP(a) == a.published_at = p
    IN  SelectSeq(list, AtP)

\* C6: the result of sort_articles is a permutation of its input, is
\* non-increasing by published_at with every article without a timestamp
\* behind every article with one, and keeps the input order among the
\* articles of one timestamp and among the articles without a timestamp.
C6_SortArticles ==
    applied =>
        /\ Len(output) = Len(articles)
        /\ \A x \in Range(articles) \cup Range(output) :
               Count(output, x) = Count(articles, x)
        /\ \A i, j \in 1..Len(output) :
               i < j =>
                   /\ output[i].published_at = None => output[j].published_at = None
                   /\ (output[i].published_at # None /\ output[j].published_at # None)
                          => output[i].published_at[1] >= output[j].published_at[1]
        /\ \A x \in Range(articles) :
               PublishedAt(output, x.published_at) = PublishedAt(articles, x.published_at)

\* a list that is out of order, with a tie and with two articles without a
\* timestamp ahead of a dated one, has been sorted
C6_Witness ==
    /\ applied
    /\ Len(articles) = 4
    /\ articles[1].published_at = None
    /\ articles[2].published_at = <<2>>
    /\ articles[3].published_at = None
    /\ articles[4].published_at = <<2>>
    /\ articles[1] # articles[3]
    /\ articles[2] # articles[4]
    /\ output = <<articles[2], articles[4], articles[1], articles[3]>>

-----------------------------------------------------------------------------
(* SpecFilter: filter_articles applied to bounded lists and keyword lists *)

\* longest list filter_articles is given
MaxFilterLen == 3

\* both kinds of keyword in the title
F_Both ==
    Article(<<"P", "H", "R", " ", "A", "I">>,
            <<"p", "r", "t", "i", "m", "e", "s", ".", "j", "p", "/", "1">>,
            <<>>, None)

\* the IT keyword in the summary only
F_Summary ==
    Article(<<"p", "h", "r">>,
            <<"x", ".", "i", "o", "/", "2">>,
            <<"D", "X", " ", "a", "p", "p">>, None)

\* PHR only across the space between title and summary
F_Split ==
    Article(<<"p", "h">>,
            <<"p", "r", "t", "i", "m", "e", "s", ".", "j", "p", "/", "3">>,
            <<"r", " ", "a", "i">>, None)

\* "tech" holds the lower-cased exclude keyword EC
F_Tech ==
    Article(<<"P", "H", "R", " ", "A", "I", " ", "t", "e", "c", "h">>,
            <<"p", "r", "t", "i", "m", "e", "s", ".", "j", "p", "/", "4">>,
            <<>>, None)

\* a medical keyword only, upper-case domain
F_MedOnly ==
    Article(<<"m", "e", "d", " ", "a", "p", "p">>,
            <<"X", ".", "I", "O", "/", "5">>,
            <<>>, None)

\* both kinds of keyword and no link
F_NoLink ==
    Article(<<"M", "e", "d", " ", "D", "X">>,
            <<>>,
            <<>>, None)

\* an IT keyword only
F_ItOnly ==
    Article(<<"A", "I">>,
            <<"h", "t", "-", "w", "a", "t", "c", "h", ".", "c", "o", "m", "/", "7">>,
            <<>>, None)

FilterPool ==
    {F_Both, F_Summary, F_Split, F_Tech, F_MedOnly, F_NoLink, F_ItOnly}

DOM_XIO == <<"X", ".", "i", "o">>

\* the keyword and domain lists filter_articles is given (exclude lists may
\* be absent, which the code treats as empty)
KeywordChoices ==
    [medical_keywords : {<<KW_PHR>>, <<KW_MED, KW_PHR>>},
     it_keywords : {<<KW_AI>>, <<KW_AI, KW_DX>>},
     exclude_keywords : {<<>>, <<KW_EC>>},
     exclude_domains : {<<>>, <<DOM_XIO>>}]

FilterInit ==
    /\ SimIdle
    /\ ListIdle
    /\ keywords \in KeywordChoices
    /\ RunIdle

FilterAddArticle ==
    /\ ~applied
    /\ Len(articles) < MaxFilterLen
    /\ \E a \in FilterPool : articles' = Append(articles, a)
    /\ UNCHANGED <<output, applied, simVars, keywords, runVars, fsVars>>

FilterApply ==
    /\ ~applied
    /\ output' = filter_articles(articles, keywords.medical_keywords,
                                 keywords.it_keywords, keywords.exclude_keywords,
                                 keywords.exclude_domains)
    /\ applied' = TRUE
    /\ UNCHANGED <<articles, simVars, keywords, runVars, fsVars>>

FilterNext == FilterAddArticle \/ FilterApply

SpecFilter == FilterInit /\ [][FilterNext]_vars

\* the article is in the output (as the copy that carries its matched keywords)
Survives(a) ==
    \E o \in Range(output) : [o EXCEPT !.matched_keywords = <<>>] = a

\* the lower-cased text "title summary" of a holds the lower-cased keyword
TextHolds(a, kw) == Contains(Lower(kw), Lower(a.title \o <<" ">> \o a.summary))

\* C5: an article is in the output of filter_articles if and only if its
\* lower-cased title-and-summary text holds at least one medical keyword, at
\* least one IT keyword and no exclude keyword, and its link matches no
\* excluded domain (keywords and domains compared in lower case).
C5_FilterIff ==
    applied =>
        \A a \in Range(articles) :
            Survives(a) <=>
                /\ \E kw \in Range(keywords.medical_keywords) : TextHolds(a, kw)
                /\ \E kw \in Range(keywords.it_keywords) : TextHolds(a, kw)
                /\ \A kw \in Range(keywords.exclude_keywords) : ~TextHolds(a, kw)
                /\ \A dom \in Range(keywords.exclude_domains) :
                       ~Contains(Lower(dom), Lower(a.link))

\* one article passed and three were dropped, one for each reason: excluded
\* domain, exclude keyword, no medical keyword
C5_Witness ==
    /\ applied
    /\ keywords.exclude_keywords = <<KW_EC>>
    /\ keywords.exclude_domains = <<DOM_XIO>>
    /\ keywords.it_keywords = <<KW_AI, KW_DX>>
    /\ articles = <<F_Summary, F_Tech, F_Both>>
    /\ output = <<[F_Both EXCEPT !.matched_keywords = <<KW_PHR, KW_AI>>]>>

-----------------------------------------------------------------------------
(* Spec: runs of the program, one after the other *)

\* most runs of one behaviour
MaxRuns == 2

EnvDefault == [webhook_url |-> TRUE, rss_env |-> <<>>, extra_env |-> <<>>]

EnvNoWebhook == [webhook_url |-> FALSE, rss_env |-> <<>>, extra_env |-> <<>>]

\* EXTRA_SOURCES=HTWatch,nosuch,google-news
EnvExtras ==
    [webhook_url |-> TRUE, rss_env |-> <<>>,
     extra_env |-> << <<"H", "T", "w", "a", "t", "c", "h">>,
                      <<"n", "o", "s", "u", "c", "h">>,
                      GOOGLE_DASH_NEWS >>]

\* a ledger written before URLs were normalized: a raw link with its
\* trailing slash, and a link without its query string
LegacyLedger ==
    LedgerFile((Catalog[2].link :> 0) @@ (NormalizeUrl(Catalog[3].link) :> 0))

\* the environment and the ledger file a behaviour starts from
InitChoices ==
    { <<EnvDefault, MissingFile>>, <<EnvDefault, LegacyLedger>>,
      <<EnvNoWebhook, MissingFile>>, <<EnvExtras, LegacyLedger>> }

\* the arguments of run: max_items 0 is "not given"
ArgChoices == [manual : BOOLEAN, dry_run : BOOLEAN, max_items : {0, 2}]

\* every list "fetched" can be, and its filtered, deduplicated, sorted form
PossibleFetched ==
    {FetchAll(e, up) : e \in {EnvDefault, EnvNoWebhook, EnvExtras}, up \in SUBSET Sources}

RankedOf == [f \in PossibleFetched |-> Ranked(f)]

Init ==
    /\ SimIdle
    /\ ListIdle
    /\ keywords = NoKeywords
    /\ \E c \in InitChoices : env = c[1] /\ disk = c[2]
    /\ runs = 0
    /\ prev = <<>>
    /\ pc = [p \in Procs |-> "idle"]
    /\ args = [p \in Procs |-> [manual |-> FALSE, dry_run |-> FALSE, max_items |-> 0]]
    /\ fetched = [p \in Procs |-> <<>>]
    /\ sent_map = [p \in Procs |-> <<>>]
    /\ new_articles = [p \in Procs |-> <<>>]
    /\ now = [p \in Procs |-> 0]
    /\ success = [p \in Procs |-> "pending"]
    /\ ledger0 = [p \in Procs |-> MissingFile]
    /\ saved = [p \in Procs |-> "no"]
    /\ exit_code = [p \in Procs |-> 0]
    /\ loads = [p \in Procs |-> 0]
    /\ FsIdle

\* what is kept of a run that ended
Summary(p, posted, was_saved, code) ==
    [manual |-> args[p].manual, dry_run |-> args[p].dry_run,
     max_items |-> args[p].max_items, fetched |-> fetched[p],
     new_articles |-> new_articles[p], success |-> posted,
     saved |-> was_saved, exit_code |-> code]

\* the process is started: python main.py [--manual] [--dry-run] [--max-items n]
Start(p) ==
    /\ pc[p] \in {"idle", "done"}
    /\ runs < MaxRuns
    /\ runs' = runs + 1
    /\ \E a \in ArgChoices : args' = [args EXCEPT ![p] = a]
    /\ pc' = [pc EXCEPT ![p] = "fetch"]
    /\ fetched' = [fetched EXCEPT ![p] = <<>>]
    /\ sent_map' = [sent_map EXCEPT ![p] = <<>>]
    /\ new_articles' = [new_articles EXCEPT ![p] = <<>>]
    /\ now' = [now EXCEPT ![p] = 0]
    /\ success' = [success EXCEPT ![p] = "pending"]
    /\ ledger0' = [ledger0 EXCEPT ![p] = disk]
    /\ saved' = [saved EXCEPT ![p] = "no"]
    /\ exit_code' = [exit_code EXCEPT ![p] = 0]
    /\ loads' = [loads EXCEPT ![p] = 0]
    /\ UNCHANGED <<env, disk, prev, simVars, listVars, keywords, fsVars>>

\* lines 293-347: every configured source is asked; any of them may fail
Fetch(p) ==
    /\ pc[p] = "fetch"
    /\ \E up \in SUBSET ConfiguredSources(env) :
           fetched' = [fetched EXCEPT ![p] = FetchAll(env, up)]
    /\ pc' = [pc EXCEPT ![p] = "select"]
    /\ UNCHANGED <<env, disk, runs, prev, args, sent_map, new_articles, now,
                   success, ledger0, saved, exit_code, loads, simVars, listVars, keywords, fsVars>>

\* lines 349-385: the digest of a manual or of a scheduled run
Select(p) ==
    /\ pc[p] = "select"
    /\ LET max_items == MaxItems(args[p].manual, args[p].max_items)
           filtered == RankedOf[fetched[p]]
       IN  IF args[p].manual
           THEN /\ new_articles' = [new_articles EXCEPT
                                       ![p] = Cap(WithoutGoogle(filtered), max_items)]
                /\ UNCHANGED <<sent_map, loads>>
           ELSE /\ sent_map' = [sent_map EXCEPT ![p] = load_sent_urls(disk)]
                /\ loads' = [loads EXCEPT ![p] = loads[p] + 1]
                /\ new_articles' = [new_articles EXCEPT
                                       ![p] = Cap(NotYetSent(filtered, load_sent_urls(disk)),
                                                  max_items)]
    /\ now' = [now EXCEPT ![p] = runs]
    /\ pc' = [pc EXCEPT ![p] = IF args[p].dry_run THEN "print" ELSE "post"]
    /\ UNCHANGED <<env, disk, runs, prev, args, fetched, success, ledger0, saved,
                   exit_code, simVars, listVars, keywords, fsVars>>

\* mutant: after printing, the dry run goes on to the delivery
PrintDryRunThenPost(p) ==
    /\ pc[p] = "print"
    /\ pc' = [pc EXCEPT ![p] = "post"]
    /\ UNCHANGED <<env, disk, runs, prev, args, fetched, sent_map, new_articles, now,
                   success, ledger0, saved, exit_code, loads, simVars, listVars,
                   keywords, fsVars>>

\* lines 387-390: a dry run prints the message and returns 0
PrintDryRun(p) ==
    /\ pc[p] = "print"
    /\ pc' = [pc EXCEPT ![p] = "done"]
    /\ exit_code' = [exit_code EXCEPT ![p] = 0]
    /\ prev' = <<Summary(p, "pending", "no", 0)>>
    /\ UNCHANGED <<env, disk, runs, args, fetched, sent_map, new_articles, now,
                   success, ledger0, saved, loads, simVars, listVars, keywords, fsVars>>

\* lines 392-398 and notifier.py: post_message returns False without a
\* webhook URL and on any error or non-2xx answer
Deliver(p) ==
    /\ pc[p] = "post"
    /\ \E posted \in (IF env.webhook_url THEN BOOLEAN ELSE {FALSE}) :
           LET next == AfterPost(posted, args[p].manual, new_articles[p])
               code == IF posted THEN 0 ELSE 1
               result == IF posted THEN "true" ELSE "false"
           IN  /\ success' = [success EXCEPT ![p] = result]
               /\ pc' = [pc EXCEPT ![p] = next]
               /\ IF next = "done"
                  THEN /\ exit_code' = [exit_code EXCEPT ![p] = code]
                       /\ prev' = <<Summary(p, result, "no", code)>>
                  ELSE UNCHANGED <<exit_code, prev>>
    /\ UNCHANGED <<env, disk, runs, args, fetched, sent_map, new_articles, now,
                   ledger0, saved, loads, simVars, listVars, keywords, fsVars>>

\* lines 399-404: the ledger is read again and the new entries are added
Reload(p) ==
    /\ pc[p] = "reload"
    /\ sent_map' = [sent_map EXCEPT
                       ![p] = RecordSent(load_sent_urls(disk), new_articles[p], now[p])]
    /\ loads' = [loads EXCEPT ![p] = loads[p] + 1]
    /\ pc' = [pc EXCEPT ![p] = "save"]
    /\ UNCHANGED <<env, disk, runs, prev, args, fetched, new_articles, now,
                   success, ledger0, saved, exit_code, simVars, listVars, keywords, fsVars>>

\* lines 405-411 and save_sent_urls: the file is replaced ("yes"), or an
\* OSError of the write is logged and the file stays as it was ("failed"),
\* and run returns 0; or the mkdir before the try raises ("raised") and the
\* process ends with the traceback and status 1
Save(p) ==
    /\ pc[p] = "save"
    /\ \E outcome \in {"yes", "failed", "raised"} :
           LET code == IF outcome = "raised" THEN 1 ELSE 0
           IN  /\ disk' = IF outcome = "yes" THEN LedgerFile(sent_map[p]) ELSE disk
               /\ saved' = [saved EXCEPT ![p] = outcome]
               /\ exit_code' = [exit_code EXCEPT ![p] = code]
               /\ prev' = <<Summary(p, success[p], outcome, code)>>
    /\ pc' = [pc EXCEPT ![p] = "done"]
    /\ UNCHANGED <<env, runs, args, fetched, sent_map, new_articles, now,
                   success, ledger0, loads, simVars, listVars, keywords, fsVars>>

Next ==
    \/ Start(1)
    \/ Fetch(1)
    \/ Select(1)
    \/ PrintDryRun(1)
    \/ Deliver(1)
    \/ Reload(1)
    \/ Save(1)

Spec == Init /\ [][Next]_vars

-----------------------------------------------------------------------------
(* Properties of Spec *)

\* the run of p has chosen its digest and has not ended
InDigest(p) == pc[p] \in {"print", "post", "reload", "save"}

\* the run of p has chosen its digest
Selected(p) == InDigest(p) \/ pc[p] = "done"

\* the run before the current one was a scheduled live run that delivered
\* its digest and replaced the ledger file, and the current run of p is a
\* scheduled run over the same fetched articles
SecondScheduledRun(p) ==
    /\ prev # <<>>
    /\ InDigest(p)
    /\ ~prev[1].manual
    /\ ~prev[1].dry_run
    /\ prev[1].success = "true"
    /\ prev[1].saved = "yes"
    /\ ~args[p].manual
    /\ fetched[p] = prev[1].fetched

FailedDeliveryEndsRun ==
    \A p \in Procs :
        success[p] = "false" =>
            /\ pc[p] = "done"
            /\ exit_code[p] = 1
            /\ saved[p] = "no"
            /\ disk = ledger0[p]

\* the run before the current one failed to deliver, and the current run
\* of p is a scheduled run over the same fetched articles
RunAfterFailedDelivery(p) ==
    /\ prev # <<>>
    /\ InDigest(p)
    /\ prev[1].success = "false"
    /\ ~args[p].manual
    /\ fetched[p] = prev[1].fetched

\* C2 as the specification states it (read in its favour: the cap of the
\* next run is not smaller than the cap of the failed run): a failed
\* delivery ends the run with exit code 1 and the ledger untouched, and
\* every article the failed run selected is selected by the next scheduled
\* run over the same fetched articles
C2_AsStated ==
    /\ FailedDeliveryEndsRun
    /\ \A p \in Procs :
           /\ RunAfterFailedDelivery(p)
           /\ MaxItems(FALSE, args[p].max_items) >= MaxItems(prev[1].manual, prev[1].max_items)
           => Range(prev[1].new_articles) \subseteq Range(new_articles[p])

\* C2: a failed delivery ends the run with exit code 1 and the ledger
\* untouched; when the failed run was a scheduled run, the next scheduled
\* run over the same fetched articles whose cap is not smaller selects
\* every article the failed run selected
C2_FailedDelivery ==
    /\ FailedDeliveryEndsRun
    /\ \A p \in Procs :
           /\ RunAfterFailedDelivery(p)
           /\ ~prev[1].manual
           /\ MaxItems(FALSE, args[p].max_items) >= MaxItems(FALSE, prev[1].max_items)
           => Range(prev[1].new_articles) \subseteq Range(new_articles[p])

C2_Witness ==
    \E p \in Procs :
        /\ RunAfterFailedDelivery(p)
        /\ ~env.webhook_url
        /\ ~prev[1].manual
        /\ prev[1].exit_code = 1
        /\ Len(prev[1].new_articles) >= 3
        /\ args[p].max_items = prev[1].max_items
        /\ new_articles[p] = prev[1].new_articles
        /\ disk = MissingFile

\* C3 as the specification states it: with no feed URL and no scraping
\* source configured, run ends before it fetches anything and its exit code
\* is not 0
C3_AsStated ==
    \A p \in Procs :
        env.rss_env = <<>> /\ env.extra_env = <<>> =>
            /\ ~(pc[p] = "select" \/ InDigest(p))
            /\ pc[p] = "done" => exit_code[p] # 0

\* C7: the digest of a manual run holds no article whose link holds
\* "news.google.com", holds at most 5 articles whatever max-items was
\* passed, and is the first 5 ranked articles from elsewhere, whatever the
\* ledger holds
C7_ManualDigest ==
    \A p \in Procs :
        args[p].manual /\ Selected(p) =>
            LET FromElsewhere(id) == ~Contains(GOOGLE_NEWS, Catalog[id].link)
                candidates == SelectSeq(RankedOf[fetched[p]], FromElsewhere)
            IN  /\ \A i \in DOMAIN new_articles[p] : FromElsewhere(new_articles[p][i])
                /\ Len(new_articles[p]) <= 5
                /\ new_articles[p] =
                       SubSeq(candidates, 1, IF Len(candidates) < 5 THEN Len(candidates) ELSE 5)

C7_Witness ==
    \E p \in Procs :
        /\ args[p].manual
        /\ pc[p] = "post"
        /\ args[p].max_items = 2
        /\ Len(new_articles[p]) = 5
        /\ \E i \in DOMAIN fetched[p] : Contains(GOOGLE_NEWS, Catalog[fetched[p][i]].link)
        /\ \E i \in DOMAIN new_articles[p] :
               Catalog[new_articles[p][i]].link \in DOMAIN load_sent_urls(disk)

\* the keys under which the ledger records the articles
LedgerKeys(ids) == {NormalizeUrl(Catalog[ids[i]].link) : i \in DOMAIN ids}

C11_AsStated ==
    \A p \in Procs :
        pc[p] = "done" /\ success[p] = "true" /\ saved[p] \in {"failed", "raised"}
            => exit_code[p] = 0

-----------------------------------------------------------------------------
(* storage.py at the level of the file system: save_sent_urls creates the *)
(* parent directory, opens <path>.tmp for writing, writes the JSON text   *)
(* block by block, closes the file and renames it onto the ledger file.   *)

\* the JSON text of one dict reaches the file in this many writes
BlocksPerDump == 2

\* the j-th block of json.dump(map)
Block(map, j) == <<map, j>>

\* the complete text of json.dump(map)
Dump(map) == [j \in 1..BlocksPerDump |-> Block(map, j)]

\* the part of a file no write has filled
Hole == <<>>

\* a file whose text is not JSON
MalformedFile == [kind |-> "malformed", map |-> <<>>]

\* what a reader finds in a file that holds these blocks
FileOf(data) ==
    IF data # <<>> /\ data[1] # Hole /\ data = Dump(data[1][1])
    THEN LedgerFile(data[1][1])
    ELSE MalformedFile

\* write(block) at position pos of a file
WriteAt(data, pos, block) ==
    [i \in 1..(IF Len(data) > pos THEN Len(data) ELSE pos) |->
        IF i = pos THEN block ELSE IF i <= Len(data) THEN data[i] ELSE Hole]

\* the file save_sent_urls writes directly to the ledger file
OpenedFileIsLedger == "dest"

\* lines 35-37: the file save_sent_urls opens for writing is tmp_path
OpenedFile == "tmp"

\* line 34: path.parent.mkdir(parents=True, exist_ok=True), outside the try;
\* it can fail only while the directory holds no file yet
Mkdir(p) ==
    /\ pc[p] = "save"
    /\ \E raised \in (IF disk.kind = "missing" /\ tmpdata = <<>> THEN BOOLEAN ELSE {FALSE}) :
           IF raised
           THEN /\ pc' = [pc EXCEPT ![p] = "done"]
                /\ saved' = [saved EXCEPT ![p] = "raised"]
                /\ exit_code' = [exit_code EXCEPT ![p] = 1]
           ELSE /\ pc' = [pc EXCEPT ![p] = "open"]
                /\ UNCHANGED <<saved, exit_code>>
    /\ UNCHANGED <<env, disk, runs, prev, args, fetched, sent_map, new_articles, now,
                   success, ledger0, loads, simVars, listVars, keywords, fsVars>>

\* line 37: open(tmp_path, "w") creates the file or truncates it; an OSError
\* is logged (lines 40-41) and save_sent_urls returns
OpenTmp(p) ==
    /\ pc[p] = "open"
    /\ \E opened \in BOOLEAN :
           IF opened
           THEN /\ IF OpenedFile = "tmp"
                   THEN tmpdata' = << <<>> >> /\ UNCHANGED <<destdata, disk>>
                   ELSE destdata' = <<>> /\ disk' = FileOf(<<>>) /\ UNCHANGED tmpdata
                /\ fd' = [fd EXCEPT ![p] = [file |-> OpenedFile, pos |-> 1]]
                /\ pc' = [pc EXCEPT ![p] = "write"]
                /\ UNCHANGED <<saved, exit_code>>
           ELSE /\ pc' = [pc EXCEPT ![p] = "done"]
                /\ saved' = [saved EXCEPT ![p] = "failed"]
                /\ exit_code' = [exit_code EXCEPT ![p] = 0]
                /\ UNCHANGED <<tmpdata, destdata, disk, fd>>
    /\ UNCHANGED <<env, runs, prev, args, fetched, sent_map, new_articles, now,
                   success, ledger0, loads, simVars, listVars, keywords, answering, last>>

\* line 38 and the end of the with block: the next block of the JSON text
\* is written to the open file, whatever name the file has by now; after the
\* last block the file is closed.  An OSError (disk full) closes the file
\* and is logged
WriteBlock(p) ==
    /\ pc[p] = "write"
    /\ \E written \in BOOLEAN :
           IF written
           THEN /\ IF fd[p].file = "tmp"
                   THEN /\ tmpdata' = <<WriteAt(tmpdata[1], fd[p].pos,
                                                Block(sent_map[p], fd[p].pos))>>
                        /\ UNCHANGED <<destdata, disk>>
                   ELSE IF fd[p].file = "dest"
                   THEN /\ destdata' = WriteAt(destdata, fd[p].pos,
                                               Block(sent_map[p], fd[p].pos))
                        /\ disk' = FileOf(destdata')
                        /\ UNCHANGED tmpdata
                   ELSE UNCHANGED <<tmpdata, destdata, disk>>
                /\ IF fd[p].pos = BlocksPerDump
                   THEN /\ fd' = [fd EXCEPT ![p] = [file |-> "none", pos |-> 0]]
                        /\ pc' = [pc EXCEPT ![p] = "replace"]
                   ELSE /\ fd' = [fd EXCEPT ![p].pos = fd[p].pos + 1]
                        /\ UNCHANGED pc
                /\ UNCHANGED <<saved, exit_code>>
           ELSE /\ fd' = [fd EXCEPT ![p] = [file |-> "none", pos |-> 0]]
                /\ pc' = [pc EXCEPT ![p] = "done"]
                /\ saved' = [saved EXCEPT ![p] = "failed"]
                /\ exit_code' = [exit_code EXCEPT ![p] = 0]
                /\ UNCHANGED <<tmpdata, destdata, disk>>
    /\ UNCHANGED <<env, runs, prev, args, fetched, sent_map, new_articles, now,
                   success, ledger0, loads, simVars, listVars, keywords, answering, last>>

\* line 39: tmp_path.replace(path) renames the temporary file onto the
\* ledger file in one step; every process that has the temporary file open
\* now has the ledger file open.  Without a temporary file (another save
\* renamed it) or on any other OSError the error is logged
Replace(p) ==
    /\ pc[p] = "replace"
    /\ \E replaced \in (IF OpenedFile = "tmp" /\ tmpdata # <<>> THEN BOOLEAN ELSE {FALSE}) :
           IF replaced
           THEN /\ destdata' = tmpdata[1]
                /\ disk' = FileOf(tmpdata[1])
                /\ tmpdata' = <<>>
                /\ fd' = [q \in Procs |->
                             IF fd[q].file = "tmp" THEN [fd[q] EXCEPT !.file = "dest"]
                             ELSE IF fd[q].file = "dest" THEN [fd[q] EXCEPT !.file = "gone"]
                             ELSE fd[q]]
                /\ last' = p
                /\ saved' = [saved EXCEPT ![p] = "yes"]
           ELSE /\ saved' = [saved EXCEPT ![p] = "failed"]
                /\ UNCHANGED <<destdata, disk, tmpdata, fd, last>>
    /\ pc' = [pc EXCEPT ![p] = "done"]
    /\ exit_code' = [exit_code EXCEPT ![p] = 0]
    /\ UNCHANGED <<env, runs, prev, args, fetched, sent_map, new_articles, now,
                   success, ledger0, loads, simVars, listVars, keywords, answering>>

\* the process is killed while it saves; its open file is closed
Crash(p) ==
    /\ pc[p] \in {"save", "open", "write", "replace"}
    /\ pc' = [pc EXCEPT ![p] = "crashed"]
    /\ fd' = [fd EXCEPT ![p] = [file |-> "none", pos |-> 0]]
    /\ UNCHANGED <<env, disk, runs, prev, args, fetched, sent_map, new_articles, now,
                   success, ledger0, saved, exit_code, loads, simVars, listVars,
                   keywords, answering, tmpdata, destdata, last>>

-----------------------------------------------------------------------------
(* SpecStore: one process loads the ledger file, adds entries and saves *)

\* the ledger files a load can meet
StoreFiles ==
    { MissingFile,
      LedgerFile(<<>>),
      LegacyLedger,
      LedgerFile(NormalizeUrl(Catalog[1].link) :> JsonNull),
      MalformedFile,
      [kind |-> "unreadable", map |-> <<>>],
      [kind |-> "undecodable", map |-> <<>>],
      [kind |-> "nonobject", map |-> <<>>] }

\* the digests whose articles are recorded
StoreDigests == { <<1>>, <<2, 3>> }

StoreInit ==
    /\ SimIdle
    /\ ListIdle
    /\ keywords = NoKeywords
    /\ env = [webhook_url |-> FALSE, rss_env |-> <<>>, extra_env |-> <<>>]
    /\ disk \in StoreFiles
    /\ runs = 1
    /\ prev = <<>>
    /\ pc = [p \in Procs |-> IF p = 1 THEN "load" ELSE "idle"]
    /\ args = [p \in Procs |-> [manual |-> FALSE, dry_run |-> FALSE, max_items |-> 0]]
    /\ fetched = [p \in Procs |-> <<>>]
    /\ sent_map = [p \in Procs |-> <<>>]
    /\ new_articles = [p \in Procs |-> <<>>]
    /\ now = [p \in Procs |-> 1]
    /\ success = [p \in Procs |-> "pending"]
    /\ ledger0 = [p \in Procs |-> disk]
    /\ saved = [p \in Procs |-> "no"]
    /\ exit_code = [p \in Procs |-> 0]
    /\ loads = [p \in Procs |-> 0]
    /\ answering = {}
    /\ tmpdata \in { <<>>, << <<Block(<<>>, 1)>> >> }
    /\ destdata = <<>>
    /\ fd = NoFd
    /\ last = 0

\* load_sent_urls(path) is called: it returns a dict or it raises
LoadLedger(p) ==
    /\ pc[p] = "load"
    /\ loads' = [loads EXCEPT ![p] = loads[p] + 1]
    /\ IF LoadRaises(disk)
       THEN /\ pc' = [pc EXCEPT ![p] = "raised"]
            /\ exit_code' = [exit_code EXCEPT ![p] = 1]
            /\ UNCHANGED sent_map
       ELSE /\ pc' = [pc EXCEPT ![p] = "loaded"]
            /\ sent_map' = [sent_map EXCEPT ![p] = load_sent_urls(disk)]
            /\ UNCHANGED exit_code
    /\ UNCHANGED <<env, disk, runs, prev, args, fetched, new_articles, now,
                   success, ledger0, saved, simVars, listVars, keywords, fsVars>>

\* lines 400-404 of main.py: the delivered articles are added to the dict
RecordNew(p) ==
    /\ pc[p] = "loaded"
    /\ \E digest \in StoreDigests :
           /\ new_articles' = [new_articles EXCEPT ![p] = digest]
           /\ sent_map' = [sent_map EXCEPT ![p] = RecordSent(sent_map[p], digest, now[p])]
    /\ pc' = [pc EXCEPT ![p] = "save"]
    /\ UNCHANGED <<env, disk, runs, prev, args, fetched, now, success, ledger0,
                   saved, exit_code, loads, simVars, listVars, keywords, fsVars>>

StoreNext ==
    \/ LoadLedger(1)
    \/ RecordNew(1)
    \/ Mkdir(1)
    \/ OpenTmp(1)
    \/ WriteBlock(1)
    \/ Replace(1)
    \/ Crash(1)

SpecStore == StoreInit /\ [][StoreNext]_vars

\* C12 as the specification states it: load_sent_urls never raises, and
\* whatever is not a JSON object (no file, an unreadable file, text that is
\* not JSON or not decodable, a JSON value that is no object) gives the
\* empty ledger
C12_AsStated ==
    \A p \in Procs :
        /\ pc[p] # "raised"
        /\ pc[p] = "loaded" /\ ledger0[p].kind # "object" => sent_map[p] = <<>>

\* C13: while and after one process saves, whether the save ends, fails on
\* an error or the process is killed, a reader of the ledger file finds its
\* complete previous content until the replace and the complete new content
\* from then on
C13_AtomicSave ==
    \A p \in Procs :
        pc[p] \in {"save", "open", "write", "replace", "done", "crashed"} =>
            IF saved[p] = "yes" THEN disk = LedgerFile(sent_map[p]) ELSE disk = ledger0[p]

C13_Witness ==
    \E p \in Procs :
        /\ pc[p] = "crashed"
        /\ ledger0[p] = LegacyLedger
        /\ disk = ledger0[p]
        /\ tmpdata = << <<Block(sent_map[p], 1)>> >>
        /\ sent_map[p] # load_sent_urls(ledger0[p])

-----------------------------------------------------------------------------
(* Properties of Spec: the ledger within one run *)

\* C14 as the specification states it (read in its favour: at most once):
\* a run loads the ledger once
C14_AsStated == \A p \in Procs : loads[p] <= 1

\* C14: a run loads the ledger at most twice: once before the selection, in
\* scheduled mode only, and once more, in either mode, before the write that
\* follows a successful delivery of a digest that is not empty; it writes the
\* ledger file at most once, and never before the delivery nor after a
\* failed delivery
C14_LedgerLifecycle ==
    \A p \in Procs :
        /\ loads[p] <= 2
        /\ args[p].manual /\ pc[p] \in {"select", "print", "post"} => loads[p] = 0
        /\ ~args[p].manual /\ pc[p] \in {"print", "post"} => loads[p] = 1
        /\ pc[p] \in {"save", "done"} /\ saved[p] # "no" =>
               loads[p] = IF args[p].manual THEN 1 ELSE 2
        /\ pc[p] = "save" \/ saved[p] # "no" =>
               success[p] = "true" /\ new_articles[p] # <<>>
        /\ success[p] # "true" /\ pc[p] # "idle" => disk = ledger0[p]
        /\ pc[p] # "idle" /\ disk # ledger0[p] =>
               saved[p] = "yes" /\ disk = LedgerFile(sent_map[p])

C14_Witness ==
    \E p \in Procs :
        /\ pc[p] = "done"
        /\ ~args[p].manual
        /\ loads[p] = 2
        /\ saved[p] = "yes"
        /\ disk # ledger0[p]
        /\ ledger0[p] = LegacyLedger

-----------------------------------------------------------------------------
(* SpecFetch: lines 293-335 of run over configurations and failing sources *)

\* PRTIMES_RSS_URLS names a feed that never answers, then the default feed
EnvTwoFeeds ==
    [webhook_url |-> TRUE,
     rss_env |-> <<"https://example.invalid/feed", "https://prtimes.jp/index.rdf">>,
     extra_env |-> <<GOOGLENEWS, MEDICALTECH>>]

\* EXTRA_SOURCES=htwatch,htwatch
EnvTwice == [webhook_url |-> TRUE, rss_env |-> <<>>, extra_env |-> <<HTWATCH, HTWATCH>>]

FetchEnvs == {EnvDefault, EnvExtras, EnvTwoFeeds, EnvTwice}

FetchInit ==
    /\ SimIdle
    /\ ListIdle
    /\ keywords = NoKeywords
    /\ env \in FetchEnvs
    /\ disk = MissingFile
    /\ runs = 1
    /\ prev = <<>>
    /\ pc = [p \in Procs |-> IF p = 1 THEN "fetch" ELSE "idle"]
    /\ args = [p \in Procs |-> [manual |-> FALSE, dry_run |-> FALSE, max_items |-> 0]]
    /\ fetched = [p \in Procs |-> <<>>]
    /\ sent_map = [p \in Procs |-> <<>>]
    /\ new_articles = [p \in Procs |-> <<>>]
    /\ now = [p \in Procs |-> 0]
    /\ success = [p \in Procs |-> "pending"]
    /\ ledger0 = [p \in Procs |-> MissingFile]
    /\ saved = [p \in Procs |-> "no"]
    /\ exit_code = [p \in Procs |-> 0]
    /\ loads = [p \in Procs |-> 0]
    /\ answering \in SUBSET Sources
    /\ tmpdata = <<>>
    /\ destdata = <<>>
    /\ fd = NoFd
    /\ last = 0

\* lines 293-338: the sources of "answering" return their articles, every
\* other source raises or returns nothing
FetchFrom(p) ==
    /\ pc[p] = "fetch"
    /\ fetched' = [fetched EXCEPT ![p] = FetchAll(env, answering)]
    /\ pc' = [pc EXCEPT ![p] = "select"]
    /\ UNCHANGED <<env, disk, runs, prev, args, sent_map, new_articles, now,
                   success, ledger0, saved, exit_code, loads, simVars, listVars,
                   keywords, fsVars>>

FetchNext == FetchFrom(1)

SpecFetch == FetchInit /\ [][FetchNext]_vars

\* the source each entry of the configuration names, feeds first
ConfiguredEntries ==
    RssFeeds(env) \o [i \in DOMAIN ExtraSources(env) |-> ExtraFetcher(ExtraSources(env)[i])]

\* what the entry at position i contributes
ResultOf(i) ==
    IF ConfiguredEntries[i] \in answering THEN SourceArticles[ConfiguredEntries[i]] ELSE <<>>

RECURSIVE ConcatUpTo(_)
\* the results of the first n entries, one after the other
ConcatUpTo(n) == IF n = 0 THEN <<>> ELSE ConcatUpTo(n - 1) \o ResultOf(n)

\* C16: whichever sources fail, the run goes on to the selection, and
\* "fetched" is the results of the sources that answered, one after the
\* other in the order of the configuration: the feeds in their order, then
\* the scraping sources in theirs
C16_FaultIsolation ==
    \A p \in Procs :
        pc[p] = "select" => fetched[p] = ConcatUpTo(Len(ConfiguredEntries))

C16_Witness ==
    \E p \in Procs :
        /\ pc[p] = "select"
        /\ env = EnvTwoFeeds
        /\ answering = Sources \ {"medicaltech"}
        /\ fetched[p] = <<1, 2, 3, 8, 9>>

-----------------------------------------------------------------------------
(* SpecConc: two runs of the program overlap on the same ledger path.  Both *)
(* have chosen their digests; each delivers, reloads the ledger and saves. *)

\* what the two runs fetched
ConcFetched == { <<1, 2, 3>>, <<6, 7>> }

ConcInit ==
    /\ SimIdle
    /\ ListIdle
    /\ keywords = NoKeywords
    /\ env = EnvDefault
    /\ disk \in {MissingFile, LegacyLedger}
    /\ runs = 2
    /\ prev = <<>>
    /\ pc = [p \in Procs |-> "post"]
    /\ args = [p \in Procs |-> [manual |-> FALSE, dry_run |-> FALSE, max_items |-> 0]]
    /\ fetched \in [Procs -> ConcFetched]
    /\ sent_map = [p \in Procs |-> load_sent_urls(disk)]
    /\ new_articles =
           [p \in Procs |-> Cap(NotYetSent(RankedOf[fetched[p]], load_sent_urls(disk)),
                                MaxItems(FALSE, 0))]
    /\ now = [p \in Procs |-> p]
    /\ success = [p \in Procs |-> "pending"]
    /\ ledger0 = [p \in Procs |-> disk]
    /\ saved = [p \in Procs |-> "no"]
    /\ exit_code = [p \in Procs |-> 0]
    /\ loads = [p \in Procs |-> 1]
    /\ FsIdle

ConcNext ==
    \E p \in Procs :
        \/ Deliver(p)
        \/ Reload(p)
        \/ Mkdir(p)
        \/ OpenTmp(p)
        \/ WriteBlock(p)
        \/ Replace(p)

SpecConc == ConcInit /\ [][ConcNext]_vars

\* both runs delivered and both have ended
BothDelivered ==
    \A p \in Procs : pc[p] = "done" /\ success[p] = "true"

\* C17 as the specification states it: after two overlapping live runs that
\* both delivered, the ledger file is the mapping of the save that replaced
\* the file last
C17_AsStated ==
    BothDelivered /\ last # 0 => disk = LedgerFile(sent_map[last])

\* the interleaving C17 names: both saves replaced the file, and a URL the
\* other run delivered and recorded is not in the final ledger
C17_LostUpdate ==
    /\ BothDelivered
    /\ \A p \in Procs : saved[p] = "yes"
    /\ disk = LedgerFile(sent_map[last])
    /\ \E q \in Procs \ {last} :
           \E url \in LedgerKeys(new_articles[q]) : url \notin DOMAIN load_sent_urls(disk)

-----------------------------------------------------------------------------
(* Properties of Spec: what a run leaves in the ledger *)

\* C18: the ledger a successful live run persists holds every entry the
\* ledger file held before the save, with one entry, normalized link to this
\* run's timestamp, for each delivered article put on top, and no entry for
\* any other article; a run that selected nothing leaves the file as it was
C18_LedgerUpdate ==
    \A p \in Procs :
        pc[p] = "done" /\ success[p] = "true" =>
            LET before == load_sent_urls(ledger0[p])
                after == load_sent_urls(disk)
                delivered == {SplitFirst(RStrip(Catalog[new_articles[p][i]].link, "/"), "?") :
                                 i \in DOMAIN new_articles[p]}
            IN  /\ new_articles[p] = <<>> => disk = ledger0[p] /\ saved[p] = "no"
                /\ saved[p] = "yes" =>
                       /\ disk.kind = "object"
                       /\ DOMAIN after = DOMAIN before \cup delivered
                       /\ \A url \in DOMAIN after :
                              after[url] = IF url \in delivered THEN now[p] ELSE before[url]

C18_Witness ==
    \E p \in Procs :
        /\ pc[p] = "done"
        /\ success[p] = "true"
        /\ saved[p] = "yes"
        /\ ~args[p].manual
        /\ ledger0[p] = LegacyLedger
        /\ args[p].max_items = 2
        /\ Len(new_articles[p]) = 2
        /\ Len(RankedOf[fetched[p]]) > 4
        /\ Cardinality(DOMAIN load_sent_urls(disk)) = 4

-----------------------------------------------------------------------------
(* Properties of SpecDedup: the two stages of deduplicate_articles *)

\* a link without its query string and without the slashes that end it
WithoutQueryAndSlash(link) == RStrip(SplitFirst(link, "?"), "/")

\* the two links differ at most by a trailing slash and a query string
SameUrl(l1, l2) == WithoutQueryAndSlash(l1) = WithoutQueryAndSlash(l2)

\* what the URL loop hands to the title loop
StageA == UrlDeduplicate(articles, {}, <<>>)

\* position i of the input holds a link, and no earlier position holds a link
\* of the same normalized URL
FirstOfItsUrl(i) ==
    /\ articles[i].link # <<>>
    /\ \A j \in 1..(i - 1) :
           \/ articles[j].link = <<>>
           \/ SplitFirst(RStrip(articles[j].link, "/"), "?")
                  # SplitFirst(RStrip(articles[i].link, "/"), "?")

\* the result of the URL loop holds no article without a link, and holds
\* exactly the articles that are the first of the input with their normalized
\* URL
C19_FirstSeen ==
    applied =>
        /\ \A a \in Range(StageA) : a.link # <<>>
        /\ \A a \in Range(articles) :
               a \in Range(StageA) <=>
                   \E i \in 1..Len(articles) : articles[i] = a /\ FirstOfItsUrl(i)

\* C19 as stated: the result of the URL loop, and so the output, never holds
\* two articles whose links differ only by a trailing slash and/or a query
\* string; the article kept for a normalized URL is the first of the input;
\* no article with an empty link is kept
C19_AsStated ==
    /\ C19_FirstSeen
    /\ applied =>
           /\ \A i, j \in 1..Len(StageA) :
                  SameUrl(StageA[i].link, StageA[j].link) => i = j
           /\ \A i, j \in 1..Len(output) :
                  SameUrl(output[i].link, output[j].link) => i = j

\* a URL and the same URL with a trailing slash and a query string are both
\* in the output
C19_BothKept ==
    /\ applied
    /\ articles = <<ArtP1, ArtP1SlashQuery>>
    /\ SameUrl(ArtP1.link, ArtP1SlashQuery.link)
    /\ output = <<ArtP1, ArtP1SlashQuery>>

\* the cases the URL loop does merge: a trailing slash alone, a query string
\* alone
C19_Merged ==
    /\ applied
    /\ \/ articles = <<ArtP1Slash, ArtP1>> /\ output = <<ArtP1Slash>>
       \/ articles = <<ArtP5, ArtP5Query>> /\ output = <<ArtP5>>


\* the accepted list when the title loop has taken k articles of StageA
AcceptedAfter(k) == TitleDeduplicate(SubSeq(StageA, 1, k), <<>>)

\* the positions of the accepted list whose title is similar to a's
Matches(accepted, a) == {i \in 1..Len(accepted) : Similar(a, accepted[i])}

\* the list without its position i, and a put at the end
ReplacedAt(accepted, i, a) ==
    Append(SubSeq(accepted, 1, i - 1) \o SubSeq(accepted, i + 1, Len(accepted)), a)

C21_AsStated ==
    applied =>
        \A i, j \in 1..Len(output) :
            i # j => ~Similar(output[i], output[j])

\* two accepted articles that are not similar to each other, then an article
\* similar to both that replaces the first: the output holds two similar
\* articles
C21_SimilarPairKept ==
    /\ applied
    /\ articles = <<ArtG2, ArtH3, ArtP1>>
    /\ ~Similar(ArtG2, ArtH3)
    /\ output = <<ArtH3, ArtP1>>
    /\ Similar(ArtH3, ArtP1)
    /\ Similar(ArtP1, ArtH3)

====
